---- MODULE Spec2Model ----
(***************************************************************************)
(* Model of telegram-bot-api/S3Storage.{h,cpp}: one S3StreamingUpload      *)
(* instance (the wrapper's lifecycle state machine and its Impl's buffer   *)
(* and part list) driven by a single caller against a remote store whose   *)
(* every call may succeed or fail.                                         *)
(*                                                                         *)
(* Bytes are modelled by their position in the stream the caller offers    *)
(* (the k-th byte handed to Impl::upload_part is the value k); the code    *)
(* never inspects a byte, so distinct values expose any loss, duplication  *)
(* or reordering.                                                          *)
(***************************************************************************)
EXTENDS Integers, Sequences, FiniteSets, TLC

\* ------------------------------------------------------------------ bounds
\* S3Storage.h:81 sets MIN_PART_SIZE = 5 * 1024 * 1024; the model scales the
\* threshold down to ScaledPartSize bytes.
ScaledPartSize == 3
\* the caller hands at most MaxParts full parts' worth of bytes to upload_part
MaxParts == 3

MIN_PART_SIZE == ScaledPartSize

MaxBytes == MaxParts * MIN_PART_SIZE

\* lengths of one upload_part call's data: empty, small, around one part,
\* and more than two parts (several flushes in one call)
ChunkLens == 0 .. (2 * MIN_PART_SIZE + 1)

\* the caller's informational offsets (ignored by the code)
Offsets == {0, 1}

\* what the remote store may answer
UploadIds == {"uidA", "uidB"}
ETags == {"e1", "e2"}
Prefixes == {"", "pfx"}
Keys == {"file.bin"}
Buckets == {"", "bkt"}
Regions == {"eu"}
AccessKeyIds == {"", "AK"}
Secrets == {"", "SK"}
Endpoints == {"", "https://e.io", "http://e.io", "e.io"}
PresignedUrls == {"", "https://signed"}

\* struct S3Config (presigned_url_expiry_seconds is not modelled)
Configs ==
  [bucket : Buckets, region : Regions, access_key_id : AccessKeyIds,
   secret_access_key : Secrets, endpoint : Endpoints, path_prefix : Prefixes,
   use_path_style : BOOLEAN, use_public_urls : BOOLEAN, use_path_only : BOOLEAN]

\* mutant: the credentials are not looked at
S3Config_is_enabledBucketOnly(cfg) == cfg.bucket # ""

S3Config_is_enabled(cfg) ==
  cfg.bucket # "" /\ cfg.access_key_id # "" /\ cfg.secret_access_key # ""

\* the configurations the streaming specification runs under
StreamConfigs ==
  {c \in Configs : /\ S3Config_is_enabled(c)
                   /\ c.endpoint = "" /\ ~c.use_path_style
                   /\ ~c.use_public_urls /\ ~c.use_path_only}

StatusValues == {"NotStarted", "InProgress", "Completed", "Failed", "Aborted"}

ErrAlreadyStarted == "Upload already started"
ErrNotInProgress == "Upload not in progress"
ErrNoData == "No data was uploaded"
ErrCreate == "Failed to create multipart upload"
ErrUploadPart == "Failed to upload part"
ErrComplete == "Failed to complete multipart upload"
OK == "OK"

VARIABLES
  status_,          \* S3StreamingUpload::status_
  uploaded_bytes_,  \* S3StreamingUpload::uploaded_bytes_
  full_key_,        \* Impl::full_key_
  upload_id_,       \* Impl::upload_id_  ("" = empty)
  completed_parts_, \* Impl::completed_parts_ : Seq([part_number, etag])
  buffered_data_,   \* Impl::buffered_data_
  alive,            \* FALSE once the destructor has run
  calls,            \* history: every request sent to the remote store
  appended,         \* history: bytes handed to Impl::upload_part so far
  accepted,         \* history: data of the upload_part calls that returned OK
  last,             \* history: the last operation and what it returned
  config_,          \* S3Storage::config_ (an S3Config)
  storage_impl_,    \* TRUE iff S3Storage::impl_ is non-null
  has_impl,         \* TRUE iff S3StreamingUpload::impl_ is non-null
  other,            \* a second S3StreamingUpload object (moves' other side)
  ub                \* history: a call through a null impl_ and its outcome

vars == <<status_, uploaded_bytes_, full_key_, upload_id_, completed_parts_,
          buffered_data_, alive, calls, appended, accepted, last,
          config_, storage_impl_, has_impl, other, ub>>

moveVars == <<has_impl, other, ub>>

\* the second object before it is constructed
NoOther == [life |-> "none", status_ |-> "NotStarted", uploaded_bytes_ |-> 0,
            impl_ |-> <<>>]

facadeVars == <<config_, storage_impl_>>

streamVars == <<status_, uploaded_bytes_, upload_id_, completed_parts_,
                buffered_data_, appended, accepted>>

implVars == <<upload_id_, completed_parts_, buffered_data_>>

\* ------------------------------------------------------------- remote store
Call(op, ok, uid, pn, body, parts) ==
  [op |-> op, ok |-> ok, upload_id |-> uid, part_number |-> pn,
   body |-> body, parts |-> parts, etag |-> ""]

\* a request together with the tag the store answered it with
Answered(call, etag) == [call EXCEPT !.etag = etag]

CreateResponses == {[ok |-> FALSE, upload_id |-> ""]}
                     \cup {[ok |-> TRUE, upload_id |-> u] : u \in UploadIds}
PartResponses == {[ok |-> FALSE, etag |-> ""]}
                   \cup {[ok |-> TRUE, etag |-> e] : e \in ETags}

\* ------------------------------------------------------------ pure helpers
Range(lo, n) == [i \in 1 .. n |-> lo + i]

Erase(s, n) == SubSeq(s, n + 1, Len(s))

\* mutant: the request body is one byte short of part_size
PrefixShort(s, n) == SubSeq(s, 1, n - 1)

Prefix(s, n) == SubSeq(s, 1, n)

get_full_key(path_prefix, s3_key) ==
  IF path_prefix = "" THEN s3_key ELSE path_prefix \o "/" \o s3_key

\* The Impl object as a value: its three fields and the requests it has sent.
ImplState == [upload_id_ |-> upload_id_, completed_parts_ |-> completed_parts_,
              buffered_data_ |-> buffered_data_, calls |-> calls]

Ret(m, err) == [m |-> m, err |-> err]

\* ------------------------------------------------------------ Impl methods
Impl_init(m, resp) ==
  LET sent == Append(m.calls, Call("CreateMultipartUpload", resp.ok,
                                   resp.upload_id, 0, <<>>, <<>>))
  IN IF ~resp.ok
       THEN Ret([m EXCEPT !.calls = sent], ErrCreate)
       ELSE Ret([m EXCEPT !.calls = sent, !.upload_id_ = resp.upload_id], OK)

\* mutant: the streaming flush sends the whole buffer
PartSizeWholeBuffer(m, is_final) == Len(m.buffered_data_)

\* mutant: the final flush also insists on a full part
PartSizeIgnoresFinal(m, is_final) ==
  IF Len(m.buffered_data_) >= MIN_PART_SIZE THEN MIN_PART_SIZE ELSE 0

PartSize(m, is_final) ==
  IF is_final THEN Len(m.buffered_data_)
  ELSE IF Len(m.buffered_data_) >= MIN_PART_SIZE THEN MIN_PART_SIZE
  ELSE 0

\* mutant: parts numbered from 0
PartNumberZeroBased(m) == Len(m.completed_parts_)

PartNumber(m) == Len(m.completed_parts_) + 1

flush_buffer_part(m, is_final, resp) ==
  IF m.buffered_data_ = <<>> THEN Ret(m, OK)
  ELSE IF PartSize(m, is_final) = 0 THEN Ret(m, OK)
  ELSE
    LET part_size == PartSize(m, is_final)
        part_number == PartNumber(m)
        sent == Append(m.calls,
                       Answered(Call("UploadPart", resp.ok, m.upload_id_,
                                     part_number,
                                     Prefix(m.buffered_data_, part_size), <<>>),
                                resp.etag))
    IN IF ~resp.ok
         THEN Ret([m EXCEPT !.calls = sent], ErrUploadPart)
         ELSE Ret([m EXCEPT !.calls = sent,
                            !.completed_parts_ =
                               Append(@, [part_number |-> part_number,
                                          etag |-> resp.etag]),
                            !.buffered_data_ = Erase(@, part_size)],
                  OK)

\* mutant: the loop stops one byte late
MoreToFlushStrict(m) == Len(m.buffered_data_) > MIN_PART_SIZE

MoreToFlush(m) == Len(m.buffered_data_) >= MIN_PART_SIZE

RECURSIVE FlushLoop(_, _)
FlushLoop(m, oracle) ==
  IF ~MoreToFlush(m) THEN Ret(m, OK)
  ELSE LET r == flush_buffer_part(m, FALSE, Head(oracle))
       IN IF r.err # OK THEN r ELSE FlushLoop(r.m, Tail(oracle))

\* mutant: the pending buffer survives an abort
Impl_abortKeepsBuffer(m, abortOk) ==
  IF m.upload_id_ = "" THEN Ret(m, OK)
  ELSE Ret([m EXCEPT !.calls = Append(@, Call("AbortMultipartUpload", abortOk,
                                               m.upload_id_, 0, <<>>, <<>>)),
                     !.upload_id_ = "",
                     !.completed_parts_ = <<>>],
           OK)

\* mutant: the session id survives an abort
Impl_abortKeepsId(m, abortOk) ==
  IF m.upload_id_ = "" THEN Ret(m, OK)
  ELSE Ret([m EXCEPT !.calls = Append(@, Call("AbortMultipartUpload", abortOk,
                                               m.upload_id_, 0, <<>>, <<>>)),
                     !.completed_parts_ = <<>>,
                     !.buffered_data_ = <<>>],
           OK)

Impl_abort(m, abortOk) ==
  IF m.upload_id_ = "" THEN Ret(m, OK)
  ELSE Ret([m EXCEPT !.calls = Append(@, Call("AbortMultipartUpload", abortOk,
                                               m.upload_id_, 0, <<>>, <<>>)),
                     !.upload_id_ = "",
                     !.completed_parts_ = <<>>,
                     !.buffered_data_ = <<>>],
           OK)

\* mutant: a failed flush tears the session down at once
Impl_upload_partAbortsOnFailure(m, data, oracle) ==
  LET r == FlushLoop([m EXCEPT !.buffered_data_ = @ \o data], oracle)
  IN IF r.err # OK THEN Ret(Impl_abort(r.m, TRUE).m, r.err) ELSE r

Impl_upload_part(m, data, oracle) ==
  FlushLoop([m EXCEPT !.buffered_data_ = @ \o data], oracle)

\* mutant: the empty upload is reported without aborting the session
Impl_completeNoAbort(m, flushResp, abortOk, completeOk) ==
  LET f == flush_buffer_part(m, TRUE, flushResp)
  IN IF f.err # OK THEN f
     ELSE IF f.m.completed_parts_ = <<>>
       THEN Ret(f.m, ErrNoData)
     ELSE
       LET sent == Append(f.m.calls,
                          Call("CompleteMultipartUpload", completeOk,
                               f.m.upload_id_, 0, <<>>, f.m.completed_parts_))
       IN IF ~completeOk
            THEN Ret([f.m EXCEPT !.calls = sent], ErrComplete)
            ELSE Ret([f.m EXCEPT !.calls = sent], OK)

\* mutant: the completion request lists the parts known before the final flush
Impl_completeStaleParts(m, flushResp, abortOk, completeOk) ==
  LET f == flush_buffer_part(m, TRUE, flushResp)
  IN IF f.err # OK THEN f
     ELSE IF f.m.completed_parts_ = <<>>
       THEN Ret(Impl_abort(f.m, abortOk).m, ErrNoData)
     ELSE
       LET sent == Append(f.m.calls,
                          Call("CompleteMultipartUpload", completeOk,
                               f.m.upload_id_, 0, <<>>, m.completed_parts_))
       IN IF ~completeOk
            THEN Ret([f.m EXCEPT !.calls = sent], ErrComplete)
            ELSE Ret([f.m EXCEPT !.calls = sent], OK)

Impl_complete(m, flushResp, abortOk, completeOk) ==
  LET f == flush_buffer_part(m, TRUE, flushResp)
  IN IF f.err # OK THEN f
     ELSE IF f.m.completed_parts_ = <<>>
       THEN Ret(Impl_abort(f.m, abortOk).m, ErrNoData)
     ELSE
       LET sent == Append(f.m.calls,
                          Call("CompleteMultipartUpload", completeOk,
                               f.m.upload_id_, 0, <<>>, f.m.completed_parts_))
       IN IF ~completeOk
            THEN Ret([f.m EXCEPT !.calls = sent], ErrComplete)
            ELSE Ret([f.m EXCEPT !.calls = sent], OK)

\* install an Impl value into the variables
SetImpl(m) ==
  /\ upload_id_' = m.upload_id_
  /\ completed_parts_' = m.completed_parts_
  /\ buffered_data_' = m.buffered_data_
  /\ calls' = m.calls

\* history record: the operation, the status_ it found, and what it returned
Returned(op, result, value) ==
  [op |-> op, from |-> status_, result |-> result, value |-> value]

\* an operation refused by the wrapper's status_ check
Rejected(op, err) ==
  /\ last' = Returned(op, err, "")
  /\ UNCHANGED <<status_, uploaded_bytes_, full_key_, implVars, alive, calls,
                 appended, accepted>>

\* ------------------------------------------------------------------- Init
Init ==
  /\ status_ = "NotStarted"
  /\ uploaded_bytes_ = 0
  /\ full_key_ \in {get_full_key(p, k) : p \in Prefixes, k \in Keys}
  /\ upload_id_ = ""
  /\ completed_parts_ = <<>>
  /\ buffered_data_ = <<>>
  /\ alive = TRUE
  /\ calls = <<>>
  /\ appended = 0
  /\ accepted = <<>>
  /\ last = [op |-> "create", from |-> "NotStarted", result |-> OK, value |-> ""]
  /\ config_ \in {c \in StreamConfigs :
                    \E k \in Keys : full_key_ = get_full_key(c.path_prefix, k)}
  /\ storage_impl_ = S3Config_is_enabled(config_)
  /\ has_impl = TRUE
  /\ other = NoOther
  /\ ub = "none"

\* ---------------------------------------------------------------- actions
\* mutant: init may be repeated after a failure
InitAllowedAfterFailure == status_ = "NotStarted" \/ status_ = "Failed"

InitAllowed == status_ = "NotStarted"

init ==
  /\ alive
  /\ UNCHANGED <<facadeVars, moveVars>>
  /\ IF ~InitAllowed THEN Rejected("init", ErrAlreadyStarted)
     ELSE \E resp \in CreateResponses :
       LET r == Impl_init(ImplState, resp)
       IN /\ SetImpl(r.m)
          /\ status_' = IF r.err # OK THEN "Failed" ELSE "InProgress"
          /\ last' = Returned("init", r.err, "")
          /\ UNCHANGED <<uploaded_bytes_, full_key_, alive, appended, accepted>>

\* mutant: writes are accepted again after a failure
UploadAllowedAfterFailure == status_ = "InProgress" \/ status_ = "Failed"

UploadAllowed == status_ = "InProgress"

\* mutant: the counter advances by the bytes flushed, not the bytes accepted
upload_partCountsFlushed ==
  /\ alive
  /\ UNCHANGED <<facadeVars, moveVars>>
  /\ \E offset \in Offsets, n \in ChunkLens :
       /\ appended + n <= MaxBytes
       /\ IF ~UploadAllowed THEN Rejected("upload_part", ErrNotInProgress)
          ELSE LET data == Range(appended, n)
                   k == (Len(buffered_data_) + n) \div MIN_PART_SIZE
               IN \E oracle \in [1 .. k -> PartResponses] :
                    LET r == Impl_upload_part(ImplState, data, oracle)
                    IN /\ SetImpl(r.m)
                       /\ appended' = appended + n
                       /\ IF r.err # OK
                            THEN /\ status_' = "Failed"
                                 /\ UNCHANGED <<uploaded_bytes_, accepted>>
                            ELSE /\ uploaded_bytes_' = uploaded_bytes_ + k * MIN_PART_SIZE
                                 /\ accepted' = accepted \o data
                                 /\ UNCHANGED status_
                       /\ last' = Returned("upload_part", r.err, "")
                       /\ UNCHANGED <<full_key_, alive>>

upload_part ==
  /\ alive
  /\ UNCHANGED <<facadeVars, moveVars>>
  /\ \E offset \in Offsets, n \in ChunkLens :
       /\ appended + n <= MaxBytes
       /\ IF ~UploadAllowed THEN Rejected("upload_part", ErrNotInProgress)
          ELSE LET data == Range(appended, n)
                   k == (Len(buffered_data_) + n) \div MIN_PART_SIZE
               IN \E oracle \in [1 .. k -> PartResponses] :
                    LET r == Impl_upload_part(ImplState, data, oracle)
                    IN /\ SetImpl(r.m)
                       /\ appended' = appended + n
                       /\ IF r.err # OK
                            THEN /\ status_' = "Failed"
                                 /\ UNCHANGED <<uploaded_bytes_, accepted>>
                            ELSE /\ uploaded_bytes_' = uploaded_bytes_ + Len(data)
                                 /\ accepted' = accepted \o data
                                 /\ UNCHANGED status_
                       /\ last' = Returned("upload_part", r.err, "")
                       /\ UNCHANGED <<full_key_, alive>>

\* mutant: complete may be retried after a failure
CompleteAllowedAfterFailure == status_ = "InProgress" \/ status_ = "Failed"

CompleteAllowed == status_ = "InProgress"

complete ==
  /\ alive
  /\ UNCHANGED <<facadeVars, moveVars>>
  /\ IF ~CompleteAllowed THEN Rejected("complete", ErrNotInProgress)
     ELSE \E flushResp \in PartResponses, abortOk \in BOOLEAN, completeOk \in BOOLEAN :
       LET r == Impl_complete(ImplState, flushResp, abortOk, completeOk)
       IN /\ SetImpl(r.m)
          /\ status_' = IF r.err # OK THEN "Failed" ELSE "Completed"
          /\ last' = Returned("complete", r.err, IF r.err = OK THEN full_key_ ELSE "")
          /\ UNCHANGED <<uploaded_bytes_, full_key_, alive, appended, accepted>>

\* mutant: only Aborted short-circuits abort
AbortIsNoopOnlyAborted == status_ = "Aborted"

AbortIsNoop == status_ = "Completed" \/ status_ = "Aborted"

\* mutant: a failed remote abort leaves the instance Failed
DoAbortNeedsRemote(abortOk) ==
  IF AbortIsNoop
    THEN UNCHANGED <<status_, implVars, calls>>
    ELSE /\ SetImpl(Impl_abort(ImplState, abortOk).m)
         /\ status_' = IF abortOk \/ upload_id_ = "" THEN "Aborted" ELSE "Failed"

\* the body of S3StreamingUpload::abort, shared with the destructor
DoAbort(abortOk) ==
  IF AbortIsNoop
    THEN UNCHANGED <<status_, implVars, calls>>
    ELSE /\ SetImpl(Impl_abort(ImplState, abortOk).m)
         /\ status_' = "Aborted"

abort ==
  /\ alive
  /\ UNCHANGED <<facadeVars, moveVars>>
  /\ \E abortOk \in BOOLEAN :
       /\ DoAbort(abortOk)
       /\ last' = Returned("abort", OK, "")
       /\ UNCHANGED <<uploaded_bytes_, full_key_, alive, appended, accepted>>

\* mutant: the destructor never aborts a started upload
DtorAbortsNever == status_ = "NotStarted"

DtorAborts == status_ = "InProgress"

\* S3StreamingUpload::~S3StreamingUpload
Destroy ==
  /\ alive
  /\ UNCHANGED <<facadeVars, moveVars>>
  /\ alive' = FALSE
  /\ \E abortOk \in BOOLEAN :
       IF DtorAborts THEN DoAbort(abortOk)
       ELSE UNCHANGED <<status_, implVars, calls>>
  /\ last' = Returned("destroy", OK, "")
  /\ UNCHANGED <<uploaded_bytes_, full_key_, appended, accepted>>

Next == init \/ upload_part \/ complete \/ abort \/ Destroy

Spec == Init /\ [][Next]_vars

\* ------------------------------------------------------ the storage facade
\* cap on the requests the facade sends in one run
MaxFacadeCalls == 2

ErrNotEnabled == "S3 storage is not enabled"
ErrReadFile == "Failed to read file"
ErrPut == "S3 upload failed"
ErrPresign == "Failed to generate presigned URL"
ErrDelete == "S3 delete failed"

\* a request of S3Storage::Impl, which names the object key it is about
FacadeCall(op, ok, key) ==
  [op |-> op, ok |-> ok, upload_id |-> "", part_number |-> 0, body |-> <<>>,
   parts |-> <<>>, etag |-> "", key |-> key]

FRet(log, result, value) == [calls |-> log, result |-> result, value |-> value]

begins_with(str, prefix) ==
  Len(str) >= Len(prefix) /\ SubSeq(str, 1, Len(prefix)) = prefix

substr(str, pos) == SubSeq(str, pos + 1, Len(str))

SImpl_get_full_key(cfg, s3_key) == get_full_key(cfg.path_prefix, s3_key)

SImpl_upload_file(cfg, log, s3_key, readOk, putOk) ==
  LET full_key == SImpl_get_full_key(cfg, s3_key)
  IN IF ~readOk THEN FRet(log, ErrReadFile, "")
     ELSE LET sent == Append(log, FacadeCall("PutObject", putOk, full_key))
          IN IF ~putOk THEN FRet(sent, ErrPut, "")
             ELSE FRet(sent, OK, full_key)

SImpl_get_presigned_url(cfg, log, s3_key, url) ==
  LET full_key == SImpl_get_full_key(cfg, s3_key)
      sent == Append(log, FacadeCall("GeneratePresignedUrl", url # "", full_key))
  IN IF url = "" THEN FRet(sent, ErrPresign, "")
     ELSE FRet(sent, OK, url)

SImpl_get_public_url(cfg, s3_key) ==
  LET full_key == SImpl_get_full_key(cfg, s3_key)
  IN IF cfg.endpoint # ""
       THEN IF cfg.use_path_style
              THEN cfg.endpoint \o "/" \o cfg.bucket \o "/" \o full_key
              ELSE LET endpoint ==
                         IF begins_with(cfg.endpoint, "https://")
                           THEN substr(cfg.endpoint, 8)
                         ELSE IF begins_with(cfg.endpoint, "http://")
                           THEN substr(cfg.endpoint, 7)
                         ELSE cfg.endpoint
                   IN "https://" \o cfg.bucket \o "." \o endpoint \o "/"
                        \o full_key
       ELSE "https://" \o cfg.bucket \o ".s3." \o cfg.region
              \o ".amazonaws.com/" \o full_key

SImpl_delete_file(cfg, log, s3_key, deleteOk) ==
  LET sent == Append(log, FacadeCall("DeleteObject", deleteOk,
                                     SImpl_get_full_key(cfg, s3_key)))
  IN IF ~deleteOk THEN FRet(sent, ErrDelete, "") ELSE FRet(sent, OK, "")

SImpl_file_exists(cfg, log, s3_key, headOk) ==
  FRet(Append(log, FacadeCall("HeadObject", headOk,
                              SImpl_get_full_key(cfg, s3_key))),
       OK, IF headOk THEN "true" ELSE "false")

\* mutant: the public-URL flag is looked at before the path-only flag
S3Storage_get_file_urlPublicFirst(cfg, log, s3_key, url) ==
  IF cfg.use_public_urls THEN FRet(log, OK, SImpl_get_public_url(cfg, s3_key))
  ELSE IF cfg.use_path_only THEN FRet(log, OK, SImpl_get_full_key(cfg, s3_key))
  ELSE SImpl_get_presigned_url(cfg, log, s3_key, url)

\* S3Storage::get_file_url once impl_ is known to be non-null
S3Storage_get_file_url(cfg, log, s3_key, url) ==
  IF cfg.use_path_only THEN FRet(log, OK, SImpl_get_full_key(cfg, s3_key))
  ELSE IF cfg.use_public_urls THEN FRet(log, OK, SImpl_get_public_url(cfg, s3_key))
  ELSE SImpl_get_presigned_url(cfg, log, s3_key, url)

\* S3Storage::S3Storage, before any S3StreamingUpload exists
FacadeInit ==
  /\ config_ \in Configs
  /\ storage_impl_ = S3Config_is_enabled(config_)
  /\ has_impl = TRUE
  /\ other = NoOther
  /\ ub = "none"
  /\ status_ = "NotStarted"
  /\ uploaded_bytes_ = 0
  /\ full_key_ = ""
  /\ upload_id_ = ""
  /\ completed_parts_ = <<>>
  /\ buffered_data_ = <<>>
  /\ alive = FALSE
  /\ calls = <<>>
  /\ appended = 0
  /\ accepted = <<>>
  /\ last = [op |-> "S3Storage", from |-> "NotStarted", result |-> OK, value |-> ""]

\* a facade operation returning r, an FRet
FacadeReturns(op, r) ==
  /\ calls' = r.calls
  /\ last' = Returned(op, r.result, r.value)
  /\ UNCHANGED <<facadeVars, streamVars, full_key_, alive, moveVars>>

is_enabled ==
  FacadeReturns("is_enabled",
                FRet(calls, OK, IF storage_impl_ THEN "true" ELSE "false"))

upload_file ==
  /\ Len(calls) < MaxFacadeCalls
  /\ \E s3_key \in Keys, readOk \in BOOLEAN, putOk \in BOOLEAN :
       FacadeReturns("upload_file",
                     IF ~storage_impl_ THEN FRet(calls, ErrNotEnabled, "")
                     ELSE SImpl_upload_file(config_, calls, s3_key, readOk, putOk))

create_streaming_upload ==
  /\ ~alive
  /\ \E s3_key \in Keys :
       IF ~storage_impl_
         THEN FacadeReturns("create_streaming_upload", FRet(calls, OK, "nullptr"))
         ELSE /\ alive' = TRUE
              /\ full_key_' = SImpl_get_full_key(config_, s3_key)
              /\ last' = Returned("create_streaming_upload", OK, "instance")
              /\ UNCHANGED <<facadeVars, streamVars, calls, moveVars>>

get_presigned_url ==
  /\ Len(calls) < MaxFacadeCalls
  /\ \E s3_key \in Keys, url \in PresignedUrls :
       FacadeReturns("get_presigned_url",
                     IF ~storage_impl_ THEN FRet(calls, ErrNotEnabled, "")
                     ELSE SImpl_get_presigned_url(config_, calls, s3_key, url))

get_public_url ==
  \E s3_key \in Keys :
    FacadeReturns("get_public_url",
                  IF ~storage_impl_ THEN FRet(calls, OK, "")
                  ELSE FRet(calls, OK, SImpl_get_public_url(config_, s3_key)))

get_file_url ==
  /\ Len(calls) < MaxFacadeCalls
  /\ \E s3_key \in Keys, url \in PresignedUrls :
       FacadeReturns("get_file_url",
                     IF ~storage_impl_ THEN FRet(calls, ErrNotEnabled, "")
                     ELSE S3Storage_get_file_url(config_, calls, s3_key, url))

get_file_path ==
  \E s3_key \in Keys :
    FacadeReturns("get_file_path",
                  IF ~storage_impl_ THEN FRet(calls, OK, "")
                  ELSE FRet(calls, OK, SImpl_get_full_key(config_, s3_key)))

delete_file ==
  /\ Len(calls) < MaxFacadeCalls
  /\ \E s3_key \in Keys, deleteOk \in BOOLEAN :
       FacadeReturns("delete_file",
                     IF ~storage_impl_ THEN FRet(calls, ErrNotEnabled, "")
                     ELSE SImpl_delete_file(config_, calls, s3_key, deleteOk))

file_exists ==
  /\ Len(calls) < MaxFacadeCalls
  /\ \E s3_key \in Keys, headOk \in BOOLEAN :
       FacadeReturns("file_exists",
                     IF ~storage_impl_ THEN FRet(calls, OK, "false")
                     ELSE SImpl_file_exists(config_, calls, s3_key, headOk))

FacadeNext ==
  \/ is_enabled \/ upload_file \/ create_streaming_upload
  \/ get_presigned_url \/ get_public_url \/ get_file_url \/ get_file_path
  \/ delete_file \/ file_exists

FacadeSpec == FacadeInit /\ [][FacadeNext]_vars

\* ------------------------------------------- move construction / assignment
\* Two S3StreamingUpload objects: the one of the variables above ("this
\* object") and `other`.  Both move operations are defaulted, so they move
\* impl_ (leaving the source's impl_ null) and copy status_ and
\* uploaded_bytes_; ~Impl is implicit and sends nothing.
\*
\* A member call through a null impl_ is undefined behaviour: the model
\* records it in ub and lets the build either stop the process ("crashed")
\* or carry on with an unspecified return value ("continued").
UbOutcomes == {"crashed", "continued"}

EmptyImpl == [upload_id_ |-> "", completed_parts_ |-> <<>>, buffered_data_ |-> <<>>]

\* this object's impl_ as a unique_ptr value: <<>> is null
ThisImplPtr ==
  IF has_impl
    THEN <<[upload_id_ |-> upload_id_, completed_parts_ |-> completed_parts_,
            buffered_data_ |-> buffered_data_]>>
    ELSE <<>>

\* store a unique_ptr value into this object's impl_
SetThisImplPtr(ptr) ==
  LET v == IF ptr = <<>> THEN EmptyImpl ELSE ptr[1]
  IN /\ has_impl' = (ptr # <<>>)
     /\ upload_id_' = v.upload_id_
     /\ completed_parts_' = v.completed_parts_
     /\ buffered_data_' = v.buffered_data_

\* the other object's Impl as a value for the Impl methods
OtherImplState ==
  [upload_id_ |-> other.impl_[1].upload_id_,
   completed_parts_ |-> other.impl_[1].completed_parts_,
   buffered_data_ |-> other.impl_[1].buffered_data_, calls |-> calls]

ImplOf(m) == [upload_id_ |-> m.upload_id_, completed_parts_ |-> m.completed_parts_,
              buffered_data_ |-> m.buffered_data_]

\* the store never hands out the same upload id twice
FreshIds ==
  \A i, j \in DOMAIN calls :
    (/\ i # j
     /\ calls[i].op = "CreateMultipartUpload" /\ calls[i].ok
     /\ calls[j].op = "CreateMultipartUpload" /\ calls[j].ok)
      => calls[i].upload_id # calls[j].upload_id

OtherReturned(op, result) ==
  [op |-> op, from |-> other.status_, result |-> result, value |-> ""]

\* ---- operations on this object; a null impl_ is dereferenced exactly where
\* ---- the status_ check lets the call through
ThisNullDeref(op, okStatus, errStatus) ==
  /\ \E outcome \in UbOutcomes :
       /\ ub' = outcome
       /\ IF outcome = "crashed" THEN UNCHANGED status_
          ELSE \E st \in {okStatus, errStatus} : status_' = st
  /\ last' = Returned(op, "undefined", "")
  /\ UNCHANGED <<uploaded_bytes_, full_key_, implVars, alive, calls, appended,
                 accepted, facadeVars, has_impl, other>>

m_init ==
  /\ ub # "crashed" /\ alive
  /\ IF InitAllowed /\ ~has_impl
       THEN ThisNullDeref("init", "InProgress", "Failed")
       ELSE init /\ FreshIds'

m_complete ==
  /\ ub # "crashed" /\ alive
  /\ IF CompleteAllowed /\ ~has_impl
       THEN ThisNullDeref("complete", "Completed", "Failed")
       ELSE complete

m_abort ==
  /\ ub # "crashed" /\ alive
  /\ IF ~AbortIsNoop /\ ~has_impl
       THEN ThisNullDeref("abort", "Aborted", "Aborted")
       ELSE abort

m_Destroy ==
  /\ ub # "crashed" /\ alive
  /\ IF DtorAborts /\ ~has_impl
       THEN /\ \E outcome \in UbOutcomes :
                 /\ ub' = outcome
                 /\ IF outcome = "crashed" THEN UNCHANGED <<status_, alive>>
                    ELSE status_' = "Aborted" /\ alive' = FALSE
            /\ last' = Returned("destroy", "undefined", "")
            /\ UNCHANGED <<uploaded_bytes_, full_key_, implVars, calls, appended,
                           accepted, facadeVars, has_impl, other>>
       ELSE Destroy

\* ---- operations on the other object
OtherFrame ==
  UNCHANGED <<status_, uploaded_bytes_, full_key_, implVars, alive, appended,
              accepted, facadeVars, has_impl>>

\* S3Storage::create_streaming_upload handing out the second object
o_create ==
  /\ ub # "crashed" /\ other.life = "none" /\ storage_impl_
  /\ other' = [life |-> "live", status_ |-> "NotStarted", uploaded_bytes_ |-> 0,
                impl_ |-> <<EmptyImpl>>]
  /\ last' = OtherReturned("o_create", OK)
  /\ UNCHANGED <<calls, ub>>
  /\ OtherFrame

OtherNullDeref(op, okStatus, errStatus) ==
  /\ \E outcome \in UbOutcomes :
       /\ ub' = outcome
       /\ IF outcome = "crashed" THEN UNCHANGED other
          ELSE \E st \in {okStatus, errStatus} :
                 other' = [other EXCEPT !.status_ = st]
  /\ last' = OtherReturned(op, "undefined")
  /\ UNCHANGED calls
  /\ OtherFrame

o_init ==
  /\ ub # "crashed" /\ other.life = "live"
  /\ IF other.status_ # "NotStarted"
       THEN /\ last' = OtherReturned("o_init", ErrAlreadyStarted)
            /\ UNCHANGED <<other, calls, ub>> /\ OtherFrame
     ELSE IF other.impl_ = <<>>
       THEN OtherNullDeref("o_init", "InProgress", "Failed")
     ELSE \E resp \in CreateResponses :
       LET r == Impl_init(OtherImplState, resp)
       IN /\ calls' = r.m.calls
          /\ FreshIds'
          /\ other' = [other EXCEPT
                         !.impl_ = <<ImplOf(r.m)>>,
                         !.status_ = IF r.err # OK THEN "Failed" ELSE "InProgress"]
          /\ last' = OtherReturned("o_init", r.err)
          /\ UNCHANGED ub /\ OtherFrame

\* S3StreamingUpload::abort on the other object, shared with its destructor
OtherDoAbort(life, op) ==
  IF other.status_ = "Completed" \/ other.status_ = "Aborted"
    THEN /\ other' = [other EXCEPT !.life = life]
         /\ last' = OtherReturned(op, OK)
         /\ UNCHANGED <<calls, ub>>
  ELSE IF other.impl_ = <<>>
    THEN \E outcome \in UbOutcomes :
           /\ ub' = outcome
           /\ other' = IF outcome = "crashed" THEN other
                        ELSE [other EXCEPT !.status_ = "Aborted", !.life = life]
           /\ last' = OtherReturned(op, "undefined")
           /\ UNCHANGED calls
  ELSE \E abortOk \in BOOLEAN :
         LET r == Impl_abort(OtherImplState, abortOk)
         IN /\ calls' = r.m.calls
            /\ other' = [other EXCEPT !.impl_ = <<ImplOf(r.m)>>,
                                       !.status_ = "Aborted", !.life = life]
            /\ last' = OtherReturned(op, OK)
            /\ UNCHANGED ub

o_abort ==
  /\ ub # "crashed" /\ other.life = "live"
  /\ OtherDoAbort("live", "o_abort")
  /\ OtherFrame

o_Destroy ==
  /\ ub # "crashed" /\ other.life = "live"
  /\ IF other.status_ = "InProgress"
       THEN OtherDoAbort("dead", "o_destroy")
       ELSE /\ other' = [other EXCEPT !.life = "dead"]
            /\ last' = OtherReturned("o_destroy", OK)
            /\ UNCHANGED <<calls, ub>>
  /\ OtherFrame

\* ---- the defaulted move operations
\* S3StreamingUpload other(std::move(*this))
MoveConstruct ==
  /\ ub # "crashed" /\ alive /\ other.life = "none"
  /\ other' = [life |-> "live", status_ |-> status_,
                uploaded_bytes_ |-> uploaded_bytes_, impl_ |-> ThisImplPtr]
  /\ SetThisImplPtr(<<>>)
  /\ last' = Returned("move_construct", OK, "")
  /\ UNCHANGED <<status_, uploaded_bytes_, full_key_, alive, calls, appended,
                 accepted, facadeVars, ub>>

\* other = std::move(*this): other's old Impl is destroyed by unique_ptr
MoveAssignOntoOther ==
  /\ ub # "crashed" /\ alive /\ other.life = "live"
  /\ other' = [life |-> "live", status_ |-> status_,
                uploaded_bytes_ |-> uploaded_bytes_, impl_ |-> ThisImplPtr]
  /\ SetThisImplPtr(<<>>)
  /\ last' = OtherReturned("move_assign_onto_other", OK)
  /\ UNCHANGED <<status_, uploaded_bytes_, full_key_, alive, calls, appended,
                 accepted, facadeVars, ub>>

\* *this = std::move(other): this object's old Impl is destroyed by unique_ptr
MoveAssignOntoThis ==
  /\ ub # "crashed" /\ alive /\ other.life = "live"
  /\ SetThisImplPtr(other.impl_)
  /\ status_' = other.status_
  /\ uploaded_bytes_' = other.uploaded_bytes_
  /\ other' = [other EXCEPT !.impl_ = <<>>]
  /\ last' = Returned("move_assign_onto_this", OK, "")
  /\ UNCHANGED <<full_key_, alive, calls, appended, accepted, facadeVars, ub>>

\* upload_part is left out of MoveNext: the moves hand the Impl over as one
\* unit whatever its buffer and part list hold.
MoveNext ==
  \/ m_init \/ m_complete \/ m_abort \/ m_Destroy
  \/ o_create \/ o_init \/ o_abort \/ o_Destroy
  \/ MoveConstruct \/ MoveAssignOntoOther \/ MoveAssignOntoThis

MoveSpec == Init /\ [][MoveNext]_vars

\* ------------------------------------------------------------- type check
TypeOK ==
  /\ status_ \in StatusValues
  /\ uploaded_bytes_ \in 0 .. MaxBytes
  /\ upload_id_ \in UploadIds \cup {""}
  /\ alive \in BOOLEAN
  /\ appended \in 0 .. MaxBytes


\* ------------------------------------------------------- history operators
NumCalls(op) == Cardinality({i \in DOMAIN calls : calls[i].op = op})

SessionAllocated ==
  \E i \in DOMAIN calls : calls[i].op = "CreateMultipartUpload" /\ calls[i].ok

CompleteSucceeded ==
  \E i \in DOMAIN calls : calls[i].op = "CompleteMultipartUpload" /\ calls[i].ok

\* this step sent exactly one request, of kind op, for session uid
IssuedOne(op, uid) ==
  /\ Len(calls') = Len(calls) + 1
  /\ SubSeq(calls', 1, Len(calls)) = calls
  /\ calls'[Len(calls')].op = op
  /\ calls'[Len(calls')].upload_id = uid

\* number of acknowledged UploadPart requests among the first n requests
AckedBefore(n) ==
  Cardinality({j \in 1 .. n : calls[j].op = "UploadPart" /\ calls[j].ok})

\* the acknowledged UploadPart requests, in the order they were sent
AckedParts == SelectSeq(calls, LAMBDA c : c.op = "UploadPart" /\ c.ok)

\* the requests sent by the step being taken
NewCalls == SubSeq(calls', Len(calls) + 1, Len(calls'))

\* ------------------------------------------------------------------ claims

\* C1: once the instance is destroyed, if init allocated a session and
\* complete never succeeded, exactly one abort request has been sent,
\* whatever the state at destruction (InProgress, Failed or Aborted).
C1_NoSessionLeaked ==
  (~alive /\ SessionAllocated /\ ~CompleteSucceeded)
    => NumCalls("AbortMultipartUpload") = 1

\* C2: the recorded parts are numbered 1..N in list order, and every
\* UploadPart request carries the number of parts recorded so far plus one.
C2_PartNumbersContiguous ==
  /\ \A i \in DOMAIN completed_parts_ : completed_parts_[i].part_number = i
  /\ \A i \in DOMAIN calls :
       calls[i].op = "UploadPart" => calls[i].part_number = AckedBefore(i - 1) + 1

C2_Witness ==
  /\ Len(completed_parts_) >= 2
  /\ \E i \in DOMAIN calls : calls[i].op = "UploadPart" /\ ~calls[i].ok

\* C3 as stated: after every upload_part call the pending buffer is shorter
\* than MIN_PART_SIZE.
C3_AfterEveryCall ==
  last.op = "upload_part" => Len(buffered_data_) < MIN_PART_SIZE

\* C3 amended: after every upload_part call that returns success the pending
\* buffer is shorter than MIN_PART_SIZE (and so it is whenever the instance
\* is InProgress).
C3_FlushThreshold ==
  /\ (last.op = "upload_part" /\ last.result = OK)
       => Len(buffered_data_) < MIN_PART_SIZE
  /\ status_ = "InProgress" => Len(buffered_data_) < MIN_PART_SIZE

C3_Witness ==
  /\ last.op = "upload_part" /\ last.result = OK
  /\ Len(completed_parts_) >= 2
  /\ Len(buffered_data_) = MIN_PART_SIZE - 1

\* C4: upload_part or complete called when status_ is not InProgress returns
\* the lifecycle error and sends no request.
C4_StateGuard ==
  [][(last'.op \in {"upload_part", "complete"} /\ status_ # "InProgress")
       => (last'.result = ErrNotInProgress /\ calls' = calls)]_vars

C4_Witness ==
  /\ last.op = "upload_part" /\ last.result = ErrNotInProgress
  /\ last.from = "Failed" /\ upload_id_ # ""

\* C5: a rejected init, upload_part or complete changes no field of the
\* instance and sends no request.
C5_RejectedChangesNothing ==
  [][(\/ last'.op = "init" /\ status_ # "NotStarted"
      \/ last'.op \in {"upload_part", "complete"} /\ status_ # "InProgress")
       => UNCHANGED <<status_, upload_id_, buffered_data_, completed_parts_,
                      uploaded_bytes_, calls>>]_vars

C5_Witness ==
  /\ last.op = "init" /\ last.result = ErrAlreadyStarted
  /\ last.from = "InProgress" /\ buffered_data_ # <<>> /\ completed_parts_ # <<>>

\* C6: the destructor of an InProgress instance sends exactly one abort
\* request for its session; the destructor of a Completed or Aborted
\* instance sends nothing.
C6_DestructorAborts ==
  [][(alive /\ ~alive')
       => /\ status_ = "InProgress"
               => IssuedOne("AbortMultipartUpload", upload_id_)
          /\ status_ \in {"Completed", "Aborted"} => calls' = calls]_vars

C6_Witness ==
  /\ ~alive /\ last.op = "destroy" /\ last.from = "InProgress"
  /\ calls[Len(calls)].op = "AbortMultipartUpload"

\* C7: abort on a Completed or Aborted instance returns success, sends no
\* request and changes nothing.
C7_AbortIdempotent ==
  [][(last'.op = "abort" /\ status_ \in {"Completed", "Aborted"})
       => /\ last'.result = OK
          /\ UNCHANGED <<status_, upload_id_, buffered_data_, completed_parts_,
                         uploaded_bytes_, calls>>]_vars

C7_Witness ==
  /\ last.op = "abort" /\ last.from = "Completed" /\ last.result = OK
  /\ status_ = "Completed" /\ upload_id_ # ""

\* C8: abort on a NotStarted, InProgress or Failed instance returns success
\* and leaves it Aborted whether or not the remote abort succeeds; the abort
\* request is sent exactly when a session id is held.
C8_AbortAlwaysSucceeds ==
  [][(last'.op = "abort" /\ status_ \in {"NotStarted", "InProgress", "Failed"})
       => /\ last'.result = OK
          /\ status_' = "Aborted"
          /\ IF upload_id_ # ""
               THEN IssuedOne("AbortMultipartUpload", upload_id_)
               ELSE calls' = calls]_vars

C8_Witness ==
  /\ last.op = "abort" /\ last.from = "Failed" /\ status_ = "Aborted"
  /\ calls # <<>>
  /\ calls[Len(calls)].op = "AbortMultipartUpload" /\ ~calls[Len(calls)].ok

\* C9: an Aborted instance holds no pending bytes, no recorded parts and no
\* session id.
C9_AbortedIsCleared ==
  status_ = "Aborted"
    => (buffered_data_ = <<>> /\ completed_parts_ = <<>> /\ upload_id_ = "")

C9_Witness ==
  /\ status_ = "Aborted"
  /\ \E i \in DOMAIN calls : calls[i].op = "UploadPart" /\ calls[i].ok
  /\ \E i \in DOMAIN calls : calls[i].op = "UploadPart" /\ ~calls[i].ok

\* C10: complete on a started upload that never received a byte returns the
\* "no data" error without a completion request, ends Failed with no parts,
\* and has sent exactly one abort request; no later abort or destruction
\* sends another.
C10_DegenerateEmpty ==
  /\ (last.op = "complete" /\ last.from = "InProgress" /\ appended = 0)
       => /\ last.result = ErrNoData
          /\ status_ = "Failed"
          /\ completed_parts_ = <<>>
  /\ (SessionAllocated /\ appended = 0 /\ status_ \in {"Failed", "Aborted"})
       => /\ NumCalls("CompleteMultipartUpload") = 0
          /\ NumCalls("AbortMultipartUpload") = 1

C10_Witness ==
  /\ status_ = "Aborted" /\ last.op = "abort" /\ last.from = "Failed"
  /\ SessionAllocated /\ appended = 0
  /\ NumCalls("AbortMultipartUpload") = 1

\* C11: in a Completed upload every part but the last has exactly
\* MIN_PART_SIZE bytes and the last has 1..MIN_PART_SIZE bytes; upload_part
\* only ever sends parts of exactly MIN_PART_SIZE bytes.
C11_PartSizes ==
  /\ [](status_ = "Completed"
          => \A i \in DOMAIN AckedParts :
               IF i < Len(AckedParts)
                 THEN Len(AckedParts[i].body) = MIN_PART_SIZE
                 ELSE Len(AckedParts[i].body) \in 1 .. MIN_PART_SIZE)
  /\ [][last'.op = "upload_part"
          => \A i \in DOMAIN NewCalls :
               /\ NewCalls[i].op = "UploadPart"
               /\ Len(NewCalls[i].body) = MIN_PART_SIZE]_vars

C11_Witness ==
  /\ status_ = "Completed"
  /\ Len(AckedParts) >= 2
  /\ Len(AckedParts[Len(AckedParts)].body) < MIN_PART_SIZE
  /\ Len(AckedParts[1].body) = MIN_PART_SIZE

\* the (number, tag) pairs the store acknowledged, in the order it did
AckedList ==
  [i \in DOMAIN AckedParts |-> [part_number |-> AckedParts[i].part_number,
                                etag |-> AckedParts[i].etag]]

\* C12: complete on an InProgress instance that has at least one part after
\* the final flush sends one completion request listing every acknowledged
\* part once, in ascending number order, with the tag the store returned;
\* success gives Completed and the full key, failure gives Failed and the
\* error.
C12_CompleteListsParts ==
  [][(/\ last'.op = "complete" /\ status_ = "InProgress"
      /\ \/ buffered_data_ = <<>> /\ completed_parts_ # <<>>
         \/ buffered_data_ # <<>> /\ NewCalls # <<>> /\ NewCalls[1].ok)
       => /\ NewCalls # <<>>
          /\ LET c == NewCalls[Len(NewCalls)]
             IN /\ c.op = "CompleteMultipartUpload"
                /\ c.upload_id = upload_id_
                /\ c.parts = AckedList'
                /\ \A i \in DOMAIN c.parts : c.parts[i].part_number = i
                /\ IF c.ok
                     THEN /\ status_' = "Completed"
                          /\ last'.result = OK
                          /\ last'.value = full_key_
                     ELSE /\ status_' = "Failed"
                          /\ last'.result = ErrComplete
          /\ Cardinality({i \in DOMAIN calls' :
                            calls'[i].op = "CompleteMultipartUpload"}) = 1]_vars

C12_Witness ==
  /\ status_ = "Completed" /\ last.op = "complete" /\ last.value = full_key_
  /\ calls[Len(calls)].op = "CompleteMultipartUpload"
  /\ Len(calls[Len(calls)].parts) >= 2
  /\ calls[Len(calls)].parts[1].etag # calls[Len(calls)].parts[2].etag
  /\ Len(AckedParts[Len(AckedParts)].body) < MIN_PART_SIZE

\* C13: the byte counter equals the total length of the data of the
\* upload_part calls that returned success, each such call adds exactly its
\* data's length, and no operation ever decreases the counter.
C13_ByteCounter ==
  /\ [](uploaded_bytes_ = Len(accepted))
  /\ [][/\ uploaded_bytes_' >= uploaded_bytes_
        /\ (last'.op = "upload_part" /\ status_ = "InProgress"
              /\ last'.result = OK)
             => uploaded_bytes_' = uploaded_bytes_ + (appended' - appended)]_vars

C13_Witness ==
  /\ last.op = "upload_part" /\ last.result = OK
  /\ uploaded_bytes_ = 2 * MIN_PART_SIZE + 1
  /\ Len(completed_parts_) = 2 /\ Len(buffered_data_) = 1

AllCallsOk == \A i \in DOMAIN calls : calls[i].ok

\* C14: with MIN_PART_SIZE - 1 bytes appended in total and every remote call
\* succeeding, nothing is uploaded before complete, and complete uploads one
\* part, number 1, of MIN_PART_SIZE - 1 bytes, and ends Completed.
C14_FinalShortPart ==
  /\ (status_ = "InProgress" /\ appended <= MIN_PART_SIZE - 1)
       => NumCalls("UploadPart") = 0
  /\ (/\ last.op = "complete" /\ last.from = "InProgress"
      /\ appended = MIN_PART_SIZE - 1 /\ AllCallsOk)
       => /\ status_ = "Completed" /\ last.result = OK
          /\ NumCalls("UploadPart") = 1
          /\ Len(AckedParts) = 1
          /\ AckedParts[1].part_number = 1
          /\ AckedParts[1].body = Range(0, MIN_PART_SIZE - 1)
          /\ Len(completed_parts_) = 1
          /\ completed_parts_[1].part_number = 1

C14_Witness ==
  /\ status_ = "Completed" /\ last.op = "complete"
  /\ appended = MIN_PART_SIZE - 1 /\ AllCallsOk
  /\ Len(AckedParts) = 1 /\ Len(AckedParts[1].body) = MIN_PART_SIZE - 1

\* C15: when an UploadPart request fails inside upload_part the call stops
\* there: the instance is Failed, the error is returned, the failed part is
\* not recorded, nothing more is sent (no retry, no further part, no abort),
\* the byte counter is unchanged and the session id is still held.
C15_FlushFailureStops ==
  [][(/\ last'.op = "upload_part" /\ status_ = "InProgress"
      /\ \E i \in DOMAIN NewCalls : ~NewCalls[i].ok)
       => /\ status_' = "Failed"
          /\ last'.result = ErrUploadPart
          /\ \A i \in DOMAIN NewCalls :
               /\ NewCalls[i].op = "UploadPart"
               /\ ~NewCalls[i].ok <=> i = Len(NewCalls)
               /\ \A j \in DOMAIN NewCalls :
                    i # j => NewCalls[i].part_number # NewCalls[j].part_number
          /\ Len(completed_parts_') = Len(completed_parts_) + Len(NewCalls) - 1
          /\ \A i \in DOMAIN completed_parts_' :
               completed_parts_'[i].part_number
                 # NewCalls[Len(NewCalls)].part_number
          /\ uploaded_bytes_' = uploaded_bytes_
          /\ upload_id_' = upload_id_ /\ upload_id_ # ""]_vars

C15_Witness ==
  /\ last.op = "upload_part" /\ last.result = ErrUploadPart
  /\ status_ = "Failed" /\ upload_id_ # ""
  /\ calls[Len(calls)].op = "UploadPart" /\ ~calls[Len(calls)].ok
  /\ calls[Len(calls)].part_number = 2
  /\ Len(completed_parts_) = 1
  /\ Len(buffered_data_) > MIN_PART_SIZE
  /\ uploaded_bytes_ = 0

RECURSIVE Flatten(_)
Flatten(ss) == IF ss = <<>> THEN <<>> ELSE Head(ss) \o Flatten(Tail(ss))

\* the bytes the store acknowledged under part number pn
ContentOf(pn) ==
  LET idx == {i \in DOMAIN AckedParts : AckedParts[i].part_number = pn}
  IN IF idx = {} THEN <<>> ELSE AckedParts[CHOOSE i \in idx : TRUE].body

\* the contents of the recorded parts, concatenated in list order
RecordedContent ==
  Flatten([i \in DOMAIN completed_parts_ |->
             ContentOf(completed_parts_[i].part_number)])

\* C18: while InProgress the byte counter is MIN_PART_SIZE times the number
\* of recorded parts plus the buffer length, and the recorded parts' contents
\* followed by the buffer are exactly the accepted data; a Completed upload's
\* parts reproduce the accepted byte stream exactly.
C18_DataConservation ==
  /\ status_ = "InProgress"
       => /\ uploaded_bytes_
               = MIN_PART_SIZE * Len(completed_parts_) + Len(buffered_data_)
          /\ RecordedContent \o buffered_data_ = accepted
  /\ status_ = "Completed"
       => /\ RecordedContent = accepted
          /\ calls[Len(calls)].parts = completed_parts_
          /\ Len(AckedParts) = Len(completed_parts_)

C18_Witness ==
  /\ status_ = "Completed"
  /\ Len(accepted) = 2 * MIN_PART_SIZE + 1
  /\ Len(completed_parts_) = 3
  /\ accepted = Range(0, 2 * MIN_PART_SIZE + 1)

\* C19: over a whole lifetime at most one abort request is sent, it names a
\* session id that an earlier successful CreateMultipartUpload returned, and
\* none is sent once CompleteMultipartUpload has succeeded.
C19_AtMostOneAbort ==
  /\ NumCalls("AbortMultipartUpload") <= 1
  /\ \A i \in DOMAIN calls :
       calls[i].op = "AbortMultipartUpload"
         => /\ calls[i].upload_id # ""
            /\ \E j \in 1 .. (i - 1) :
                 /\ calls[j].op = "CreateMultipartUpload" /\ calls[j].ok
                 /\ calls[j].upload_id = calls[i].upload_id
            /\ \A j \in 1 .. (i - 1) :
                 ~(calls[j].op = "CompleteMultipartUpload" /\ calls[j].ok)
  /\ CompleteSucceeded => NumCalls("AbortMultipartUpload") = 0

C19_Witness ==
  /\ ~alive /\ last.from = "Aborted"
  /\ NumCalls("AbortMultipartUpload") = 1
  /\ \E i \in DOMAIN calls : calls[i].op = "CompleteMultipartUpload" /\ ~calls[i].ok

\* C20: status_ changes only NotStarted -> InProgress (init succeeds),
\* NotStarted -> Failed (init fails), NotStarted -> Aborted (abort),
\* InProgress -> Completed (complete succeeds), InProgress -> Failed
\* (upload_part or complete fails), InProgress -> Aborted (abort, also the
\* destructor's), Failed -> Aborted (abort); Completed and Aborted are never
\* left and NotStarted and InProgress are never re-entered.
C20_LifecycleTransitions ==
  [][status_' # status_
       => \/ /\ status_ = "NotStarted" /\ status_' = "InProgress"
             /\ last'.op = "init" /\ last'.result = OK
          \/ /\ status_ = "NotStarted" /\ status_' = "Failed"
             /\ last'.op = "init" /\ last'.result # OK
          \/ /\ status_ = "NotStarted" /\ status_' = "Aborted"
             /\ last'.op = "abort"
          \/ /\ status_ = "InProgress" /\ status_' = "Completed"
             /\ last'.op = "complete" /\ last'.result = OK
          \/ /\ status_ = "InProgress" /\ status_' = "Failed"
             /\ last'.op \in {"upload_part", "complete"} /\ last'.result # OK
          \/ /\ status_ = "InProgress" /\ status_' = "Aborted"
             /\ last'.op \in {"abort", "destroy"}
          \/ /\ status_ = "Failed" /\ status_' = "Aborted"
             /\ last'.op = "abort"]_vars

C20_Witness ==
  /\ status_ = "Aborted" /\ last.op = "abort" /\ last.from = "Failed"
  /\ NumCalls("CreateMultipartUpload") = 1 /\ ~SessionAllocated

\* the policy bundle names a bucket, a key id and a secret
HasCredentials ==
  config_.bucket # "" /\ config_.access_key_id # ""
    /\ config_.secret_access_key # ""

\* prefix + "/" + key, or the key alone when no prefix is configured
BareKeyPath(k) ==
  IF config_.path_prefix = "" THEN k ELSE config_.path_prefix \o "/" \o k

\* C16: on an enabled facade get_file_url returns the bare full key and
\* sends nothing whenever use_path_only is set, whatever use_public_urls is;
\* it returns the constructed public URL only when use_path_only is false
\* and use_public_urls is true, and asks for a presigned URL only when both
\* are false.
C16_UrlPrecedence ==
  [][(last'.op = "get_file_url" /\ HasCredentials)
       => /\ config_.use_path_only
               => /\ last'.result = OK
                  /\ \E k \in Keys : last'.value = BareKeyPath(k)
                  /\ calls' = calls
          /\ (\E k \in Keys : last'.value = SImpl_get_public_url(config_, k))
               => (~config_.use_path_only /\ config_.use_public_urls)
          /\ (\E i \in DOMAIN NewCalls : NewCalls[i].op = "GeneratePresignedUrl")
               <=> (~config_.use_path_only /\ ~config_.use_public_urls)
          /\ \A i \in DOMAIN NewCalls : NewCalls[i].op = "GeneratePresignedUrl"]_vars

C16_Witness ==
  /\ last.op = "get_file_url" /\ last.result = OK
  /\ config_.use_path_only /\ config_.use_public_urls
  /\ config_.path_prefix = "pfx" /\ last.value = "pfx/file.bin"
  /\ calls = <<>>

\* C17: with an empty bucket, access key id or secret the facade is
\* disabled: is_enabled is false, upload_file, get_presigned_url,
\* get_file_url and delete_file return the "not enabled" error,
\* get_public_url and get_file_path return the empty string, file_exists
\* returns false, create_streaming_upload returns no instance, and no
\* request is ever sent.
C17_DisabledFacade ==
  /\ [](~HasCredentials => (~storage_impl_ /\ calls = <<>> /\ ~alive))
  /\ [][~HasCredentials
          => /\ calls' = calls
             /\ last'.op = "is_enabled" => last'.value = "false"
             /\ last'.op \in {"upload_file", "get_presigned_url",
                               "get_file_url", "delete_file"}
                  => last'.result = ErrNotEnabled
             /\ last'.op \in {"get_public_url", "get_file_path"}
                  => (last'.result = OK /\ last'.value = "")
             /\ last'.op = "file_exists" => last'.value = "false"
             /\ last'.op = "create_streaming_upload"
                  => (last'.value = "nullptr" /\ ~alive')]_vars

C17_Witness ==
  /\ config_.bucket # "" /\ config_.access_key_id # ""
  /\ config_.secret_access_key = ""
  /\ last.op = "upload_file" /\ last.result = ErrNotEnabled
  /\ calls = <<>>

\* this step sent an abort request for session uid
AbortSentFor(uid) ==
  \E i \in DOMAIN NewCalls :
    NewCalls[i].op = "AbortMultipartUpload" /\ NewCalls[i].upload_id = uid

\* C21: a move leaves the session with exactly one owner. Aborting or
\* destroying an object that was moved from while InProgress sends no remote
\* call and does not go through its null impl_; and move-assigning onto an
\* InProgress object that holds a session sends an abort for that session
\* rather than dropping it.
C21_MoveKeepsOneOwner ==
  [][/\ (/\ ub = "none" /\ last'.op \in {"abort", "destroy"}
         /\ status_ = "InProgress" /\ ~has_impl)
        => (calls' = calls /\ ub' = "none" /\ last'.result # "undefined")
     /\ (/\ ub = "none" /\ last'.op \in {"o_abort", "o_destroy"}
         /\ other.status_ = "InProgress" /\ other.impl_ = <<>>)
        => (calls' = calls /\ ub' = "none" /\ last'.result # "undefined")
     /\ (/\ ub = "none" /\ last'.op = "move_assign_onto_other"
         /\ other.status_ = "InProgress" /\ other.impl_ # <<>>
         /\ other.impl_[1].upload_id_ # "")
        => AbortSentFor(other.impl_[1].upload_id_)
     /\ (/\ ub = "none" /\ last'.op = "move_assign_onto_this"
         /\ status_ = "InProgress" /\ has_impl /\ upload_id_ # "")
        => AbortSentFor(upload_id_)]_vars

====
